---- MODULE Spec2Model ----
(***************************************************************************)
(* Model of the command-tree dispatcher of src/src/index.ts:               *)
(* Arguments (decoders), CommandNode / LiteralCommandNode /                *)
(* ArgumentCommandNode (builder calls and the recursive parse) and         *)
(* CommandManager (register, remove, execute).                             *)
(*                                                                         *)
(* Strings are sequences of one-character strings, so that startsWith,     *)
(* substring, split and the template literals are computed, not assumed.   *)
(* A node is a record; a node's identity during a dispatch is the key of   *)
(* the namespace it is reached through and the path of child indices from  *)
(* that namespace's root.                                                  *)
(***************************************************************************)
EXTENDS Integers, Sequences, FiniteSets, TLC

VARIABLES
  roots,      \* CommandManager.roots: the Map as a sequence of entries in insertion order
  detached,   \* nodes built by literal()/argument() and not yet attached (innermost last)
  removed,    \* history: namespaces removed and not registered again since
  heap,       \* the node objects by address, where calls name nodes by reference
  last        \* observation of the most recent call: the command line given to
              \* execute, the calls it made in order, whether an error left it

vars == <<roots, detached, removed, heap, last>>

----------------------------------------------------------------------------
(* Bounds and input sets *)

MaxNodes == 2
MaxTokens == 2
MaxHeap == 2
MaxRefs == 3

undefined == "undefined"

Namespaces == {"a", "b"}
Names == {<<"a">>}
Decorators == {"NUMBER", "STRING"}
Permissions == {"admin"}
Handlers == {"h"}
Words == {<<"a">>, <<"1">>}
Digits == {"0", "1"}

----------------------------------------------------------------------------
(* Arguments *)

RECURSIVE Number(_)
Number(arg) ==
  IF Len(arg) = 0 THEN 0
  ELSE 10 * Number(SubSeq(arg, 1, Len(arg) - 1))
       + (IF arg[Len(arg)] = "1" THEN 1 ELSE 0)

isNaN(arg) == \E i \in 1..Len(arg) : arg[i] \notin Digits

NumberValue(n) == [type |-> "number", num |-> n, str |-> <<>>]
StringValue(s) == [type |-> "string", num |-> 0, str |-> s]
NoValue == [type |-> "undefined", num |-> 0, str |-> <<>>]

\* an error message without the offending token
Arguments_NUMBER_bare(arg) ==
  IF isNaN(arg)
  THEN [threw |-> TRUE, message |-> <<"Invalid number ">>, value |-> NoValue]
  ELSE [threw |-> FALSE, message |-> <<>>, value |-> NumberValue(Number(arg))]

Arguments_NUMBER(arg) ==
  IF isNaN(arg)
  THEN [threw |-> TRUE, message |-> <<"Invalid number ">> \o arg, value |-> NoValue]
  ELSE [threw |-> FALSE, message |-> <<>>, value |-> NumberValue(Number(arg))]

Arguments_STRING(arg) == [threw |-> FALSE, message |-> <<>>, value |-> StringValue(arg)]

----------------------------------------------------------------------------
(* CommandNode, LiteralCommandNode, ArgumentCommandNode *)

CommandNode ==
  [kind |-> "node", name |-> <<>>, decorator |-> undefined,
   children |-> <<>>, exec |-> undefined, permission |-> undefined]

literal(name) == [CommandNode EXCEPT !.kind = "literal", !.name = name]

argument(name, decorator) ==
  [CommandNode EXCEPT !.kind = "argument", !.name = name, !.decorator = decorator]

toString(node) ==
  IF node.kind = "argument" THEN <<"<">> \o node.name \o <<">">> ELSE node.name

decode(node, arg) ==
  IF node.decorator = "NUMBER" THEN Arguments_NUMBER(arg) ELSE Arguments_STRING(arg)

require(node, permission) == [node EXCEPT !.permission = permission]

execute(node, exec) == [node EXCEPT !.exec = exec]

\* the comparator handed to children.sort
compare(a, b) ==
  IF a.kind = "literal" /\ b.kind = "argument" THEN -1
  ELSE IF a.kind = "argument" /\ b.kind = "literal" THEN 1
  ELSE 0

\* an insertion that puts x before the elements it compares equal to
RECURSIVE insert_front(_, _)
insert_front(s, x) ==
  IF Len(s) = 0 THEN <<x>>
  ELSE IF compare(s[Len(s)], x) >= 0
       THEN Append(insert_front(SubSeq(s, 1, Len(s) - 1), x), s[Len(s)])
       ELSE Append(s, x)

\* stable insertion of x into a sorted sequence: x goes after every element
\* that does not compare greater than it
RECURSIVE insert(_, _)
insert(s, x) ==
  IF Len(s) = 0 THEN <<x>>
  ELSE IF compare(s[Len(s)], x) > 0
       THEN Append(insert(SubSeq(s, 1, Len(s) - 1), x), s[Len(s)])
       ELSE Append(s, x)

\* children left in the order they were attached
sort_none(s) == s

RECURSIVE sort(_)
sort(s) ==
  IF Len(s) = 0 THEN <<>>
  ELSE insert(sort(SubSeq(s, 1, Len(s) - 1)), s[Len(s)])

then(node, child) == [node EXCEPT !.children = sort(Append(@, child))]

----------------------------------------------------------------------------
(* The calls a dispatch makes, in order.  ns and path say which node made  *)
(* the call: the namespace key and the child indices from its root.        *)

Ev(op, ns, path, data) == [op |-> op, ns |-> ns, path |-> path, data |-> data]

InvalidCommand == <<"Invalid command">>
PermissionDenied == <<"Permission denied">>
HandlerError == <<"handler error">>

\* the source's answer: source.hasPermission(permission)
hasPermission(source, permission) == permission \in source.granted

\* a gate that lets every source through
denied_never(node, source) == FALSE

\* the condition of the permission gate at the top of parse
denied(node, source) ==
  node.permission # undefined /\ ~hasPermission(source, node.permission)

\* a push at the front of the list
push_front(args, value) == <<value>> \o args

\* args.push(value)
push(args, value) == Append(args, value)

\* what parse hands back to its caller: the value returned (or that an error
\* is propagating), the token array as the call left it, and the calls made
Outcome(ret, message, nodes, log) ==
  [ret |-> ret, message |-> message, nodes |-> nodes, log |-> log]

\* a pop that leaves the array as it is
pop_none(nodes) == nodes

\* the array after nodes.pop(): its last element taken off
pop(nodes) == SubSeq(nodes, 1, Len(nodes) - 1)

\* a try block without its catch: the error goes on to the caller
catch_rethrow(tried, ns, path) == tried

\* the catch block around decode and child.parse: an error raised inside is
\* reported with its message by the node whose loop it is, which returns false
catch(tried, ns, path) ==
  IF tried.ret = "throw"
  THEN Outcome("false", <<>>, tried.nodes,
               tried.log \o <<Ev("fail", ns, path, tried.message)>>)
  ELSE tried

RECURSIVE parse(_, _, _, _, _, _)
RECURSIVE children_loop(_, _, _, _, _, _, _, _)

\* the for loop of parse, from child i on; nodeStr is the popped token
children_loop(node, i, nodeStr, nodes, args, source, ns, path) ==
  IF i > Len(node.children)
  THEN Outcome("false", <<>>, nodes, <<>>)
  ELSE
    LET child == node.children[i] IN
    IF child.kind = "literal" /\ toString(child) = nodeStr
    THEN parse(child, nodes, args, source, ns, Append(path, i))
    ELSE IF child.kind = "argument"
    THEN
      LET d == decode(child, nodeStr)
          called == <<Ev("decode", ns, Append(path, i), nodeStr)>>
          tried == IF d.threw
                   THEN Outcome("throw", d.message, nodes, <<>>)
                   ELSE parse(child, nodes, push(args, d.value), source, ns,
                              Append(path, i))
          r == catch(tried, ns, path)
      IN [r EXCEPT !.log = called \o @]
    ELSE children_loop(node, i + 1, nodeStr, nodes, args, source, ns, path)

\* The body of parse.  A handler named in source.throwing raises an error when
\* invoked.  The test `nodeStr === undefined` after the pop has no case here:
\* the array is not empty at the pop and split yields strings only.
parse_body(node, nodes, args, source, ns, path) ==
  LET checked == IF node.permission # undefined
                 THEN <<Ev("hasPermission", ns, path,
                            [permission |-> node.permission,
                             result |-> node.permission \in source.granted])>>
                 ELSE <<>>
  IN
  IF denied(node, source)
  THEN Outcome("false", <<>>, nodes,
               checked \o <<Ev("fail", ns, path, PermissionDenied)>>)
  ELSE IF Len(nodes) = 0
  THEN
    IF node.exec # undefined
    THEN IF node.exec \in source.throwing
         THEN Outcome("throw", HandlerError, nodes,
                      checked \o <<Ev("exec", ns, path, args)>>)
         ELSE Outcome("true", <<>>, nodes,
                      checked \o <<Ev("exec", ns, path, args)>>)
    ELSE Outcome("false", <<>>, nodes,
                 checked \o <<Ev("fail", ns, path, InvalidCommand)>>)
  ELSE
    LET nodeStr == nodes[Len(nodes)]
        popped == pop(nodes)
        taken == <<Ev("pop", ns, path, nodeStr)>>
    IN
    IF Len(node.children) = 0
    THEN Outcome("false", <<>>, popped,
                 checked \o taken \o <<Ev("fail", ns, path, InvalidCommand)>>)
    ELSE
      LET r == children_loop(node, 1, nodeStr, popped, args, source, ns, path)
      IN [r EXCEPT !.log = checked \o taken \o @]

\* CommandNode.parse, with its entry and its return recorded around the body
parse(node, nodes, args, source, ns, path) ==
  LET r == parse_body(node, nodes, args, source, ns, path) IN
  [r EXCEPT !.log = <<Ev("parse", ns, path, nodes)>> \o @
                    \o <<Ev("return", ns, path, r.ret)>>]

----------------------------------------------------------------------------
(* CommandManager *)

prefix == <<"/">>

\* a test that takes any command line as prefixed
startsWith_any(str, pre) == TRUE

startsWith(str, pre) ==
  Len(str) >= Len(pre) /\ SubSeq(str, 1, Len(pre)) = pre

\* a substring that leaves the prefix in place
substring_keep(str, start) == str

substring(str, start) == SubSeq(str, start + 1, Len(str))

\* String.prototype.split on a one-character separator: the pieces between
\* separators, empty pieces kept, always at least one piece
RECURSIVE split(_, _)
split(str, sep) ==
  IF \A i \in 1..Len(str) : str[i] # sep
  THEN <<str>>
  ELSE LET k == CHOOSE i \in 1..Len(str) :
                  str[i] = sep /\ \A j \in 1..(i - 1) : str[j] # sep
       IN <<SubSeq(str, 1, k - 1)>> \o split(SubSeq(str, k + 1, Len(str)), sep)

reverse(s) == [i \in 1..Len(s) |-> s[Len(s) + 1 - i]]

keys(map) == [i \in 1..Len(map) |-> map[i].key]

has(map, key) == \E i \in 1..Len(map) : map[i].key = key

get(map, key) == map[CHOOSE i \in 1..Len(map) : map[i].key = key].node

\* a set that moves the key to the end of the order
set_move_to_end(map, key, node) ==
  Append(SelectSeq(map, LAMBDA e : e.key # key), [key |-> key, node |-> node])

\* Map.set: a new key goes to the end, an existing key keeps its place
set(map, key, node) ==
  IF has(map, key)
  THEN [i \in 1..Len(map) |->
          IF map[i].key = key THEN [key |-> key, node |-> node] ELSE map[i]]
  ELSE Append(map, [key |-> key, node |-> node])

\* a delete that leaves the entry in the map
delete_none(map, key) == map

delete(map, key) == SelectSeq(map, LAMBDA e : e.key # key)

register(map, namespace, node) ==
  LET ensured == IF ~has(map, namespace) THEN set(map, namespace, CommandNode) ELSE map
  IN set(ensured, namespace, then(get(ensured, namespace), node))

remove(map, namespace) == delete(map, namespace)

\* the for loop of CommandManager.execute from the i-th key on; nodes is the
\* one array made by split, as the earlier iterations left it
RECURSIVE roots_loop(_, _, _, _)
roots_loop(map, i, nodes, source) ==
  IF i > Len(map)
  THEN [threw |-> FALSE, log |-> <<Ev("fail", undefined, <<>>, InvalidCommand)>>]
  ELSE
    LET r == parse(map[i].node, reverse(nodes), <<>>, source, map[i].key, <<>>) IN
    IF r.ret = "true" THEN [threw |-> FALSE, log |-> r.log]
    ELSE IF r.ret = "throw" THEN [threw |-> TRUE, log |-> r.log]
    ELSE LET rest == roots_loop(map, i + 1, r.nodes, source)
         IN [rest EXCEPT !.log = r.log \o @]

manager_execute(map, source, commands) ==
  IF ~startsWith(commands, prefix)
  THEN [threw |-> FALSE, log |-> <<Ev("fail", undefined, <<>>, InvalidCommand)>>]
  ELSE roots_loop(map, 1, split(substring(commands, Len(prefix)), " "), source)

----------------------------------------------------------------------------
(* Inputs *)

RECURSIVE size(_)
RECURSIVE sizes(_)
size(node) == 1 + sizes(node.children)
sizes(s) == IF Len(s) = 0 THEN 0 ELSE size(s[1]) + sizes(Tail(s))

\* nodes made by literal()/argument() that are still referenced
Live == sizes(detached) + sizes([i \in 1..Len(roots) |-> roots[i].node]) - Len(roots)

RECURSIVE join(_, _)
join(words, sep) ==
  IF Len(words) = 0 THEN <<>>
  ELSE IF Len(words) = 1 THEN words[1]
  ELSE words[1] \o sep \o join(Tail(words), sep)

WordLists == UNION { [1..n -> Words] : n \in 1..MaxTokens }

\* every word list behind the prefix, and the bare words without it
CommandLines == { prefix \o join(w, <<" ">>) : w \in WordLists } \cup Words

Sources == [granted : SUBSET Permissions, throwing : SUBSET Handlers]

Idle == [op |-> "build", commands |-> <<>>, threw |-> FALSE, log |-> <<>>]

----------------------------------------------------------------------------
(* Calls *)

Init ==
  /\ roots = <<>>
  /\ detached = <<>>
  /\ removed = {}
  /\ heap = <<>>
  /\ last = Idle

\* CommandManager.literal(name)
Literal(name) ==
  /\ Live < MaxNodes
  /\ detached' = Append(detached, literal(name))
  /\ last' = Idle
  /\ UNCHANGED <<roots, removed, heap>>

\* CommandManager.argument(name, decorator)
Argument(decorator) ==
  /\ Live < MaxNodes
  /\ detached' = Append(detached, argument(<<"x">>, decorator))
  /\ last' = Idle
  /\ UNCHANGED <<roots, removed, heap>>

Top == detached[Len(detached)]
Below == SubSeq(detached, 1, Len(detached) - 1)

\* node.require(permission) on the node being built
Require(permission) ==
  /\ Len(detached) >= 1
  /\ detached' = Append(Below, require(Top, permission))
  /\ last' = Idle
  /\ UNCHANGED <<roots, removed, heap>>

\* node.execute(exec) on the node being built
SetExec(exec) ==
  /\ Len(detached) >= 1
  /\ detached' = Append(Below, execute(Top, exec))
  /\ last' = Idle
  /\ UNCHANGED <<roots, removed, heap>>

\* outer.then(inner): the innermost detached node becomes a child of the one before it
Then ==
  /\ Len(detached) >= 2
  /\ detached' = Append(SubSeq(detached, 1, Len(detached) - 2),
                        then(detached[Len(detached) - 1], Top))
  /\ last' = Idle
  /\ UNCHANGED <<roots, removed, heap>>

\* manager.register(namespace, node)
Register(namespace) ==
  /\ Len(detached) >= 1
  /\ roots' = register(roots, namespace, Top)
  /\ detached' = Below
  /\ removed' = removed \ {namespace}
  /\ last' = Idle
  /\ UNCHANGED heap

\* manager.remove(namespace)
Remove(namespace) ==
  /\ roots' = remove(roots, namespace)
  /\ removed' = IF has(roots, namespace) THEN removed \cup {namespace} ELSE removed
  /\ last' = Idle
  /\ UNCHANGED <<detached, heap>>

\* an execute that takes the first namespace out of the registry
Execute_consuming(source, commands) ==
  /\ LET r == manager_execute(roots, source, commands) IN
       last' = [op |-> "execute", commands |-> commands,
                threw |-> r.threw, log |-> r.log]
  /\ roots' = IF Len(roots) = 0 THEN roots ELSE Tail(roots)
  /\ UNCHANGED <<detached, removed, heap>>

\* manager.execute(source, commands)
Execute(source, commands) ==
  /\ LET r == manager_execute(roots, source, commands) IN
       last' = [op |-> "execute", commands |-> commands,
                threw |-> r.threw, log |-> r.log]
  /\ UNCHANGED <<roots, detached, removed, heap>>

Next ==
  \/ \E name \in Names : Literal(name)
  \/ \E decorator \in Decorators : Argument(decorator)
  \/ \E permission \in Permissions : Require(permission)
  \/ \E exec \in Handlers : SetExec(exec)
  \/ Then
  \/ \E namespace \in Namespaces : Register(namespace)
  \/ \E namespace \in Namespaces : Remove(namespace)
  \/ \E source \in Sources, commands \in CommandLines : Execute(source, commands)

Spec == Init /\ [][Next]_vars

----------------------------------------------------------------------------
(* Two execute calls in a row.  The observation also keeps the source of    *)
(* the call and, when the call before it was an execute with the same       *)
(* source and command line, what that call did.                             *)

Repeats(source, commands) ==
  last.op = "execute" /\ last.source = source /\ last.commands = commands

Observed(source, commands, r) ==
  [op |-> "execute", commands |-> commands, threw |-> r.threw, log |-> r.log,
   source |-> source,
   before |-> IF Repeats(source, commands)
              THEN <<[threw |-> last.threw, log |-> last.log]>>
              ELSE <<>>]

\* an execute that takes the last namespace out of the registry
ExecuteAgain_consuming(source, commands) ==
  /\ last' = Observed(source, commands, manager_execute(roots, source, commands))
  /\ roots' = IF Len(roots) = 0 THEN roots ELSE SubSeq(roots, 1, Len(roots) - 1)
  /\ UNCHANGED <<detached, removed, heap>>

\* manager.execute(source, commands)
ExecuteAgain(source, commands) ==
  /\ last' = Observed(source, commands, manager_execute(roots, source, commands))
  /\ UNCHANGED <<roots, detached, removed, heap>>

NextRepeat ==
  \/ \E name \in Names : Literal(name)
  \/ \E decorator \in Decorators : Argument(decorator)
  \/ \E permission \in Permissions : Require(permission)
  \/ \E exec \in Handlers : SetExec(exec)
  \/ Then
  \/ \E namespace \in Namespaces : Register(namespace)
  \/ \E namespace \in Namespaces : Remove(namespace)
  \/ \E source \in Sources, commands \in CommandLines :
       last.op = "build" /\ ExecuteAgain(source, commands)
  \/ last.op = "execute" /\ ExecuteAgain(last.source, last.commands)

SpecRepeat == Init /\ [][NextRepeat]_vars

----------------------------------------------------------------------------
(* The same calls with nodes named by reference.  heap[id] is the node      *)
(* object at address id; a children array holds references, each the        *)
(* address and the class of the node it points to, so a node can be given   *)
(* to then() and register() any number of times.                            *)

Ref(id) == [id |-> id, kind |-> heap[id].kind]

\* what parse reads when it follows the references from node: node.children
\* and every child's fields, down to depth levels
RECURSIVE deref(_, _, _)
deref(h, node, depth) ==
  [node EXCEPT !.children =
     IF depth = 0 THEN <<>>
     ELSE [j \in 1..Len(node.children) |->
             deref(h, h[node.children[j].id], depth - 1)]]

\* parse descends one level per token; the references are followed two
\* levels further than the longest command line has tokens
Depth == MaxTokens + 2

Registry(map) ==
  [r \in 1..Len(map) |->
     [key |-> map[r].key, node |-> deref(heap, map[r].node, Depth)]]

\* the inputs of the calls by reference: no node requires a permission here,
\* so the sources differ in the handlers that raise an error only
HDecorators == {"STRING"}
HSources == [granted : {{}}, throwing : SUBSET Handlers]

\* the references held in children arrays, of nodes and of roots
RECURSIVE held(_)
held(s) == IF Len(s) = 0 THEN 0 ELSE Len(s[1].children) + held(Tail(s))
Refs == held(heap) + held([r \in 1..Len(roots) |-> roots[r].node])

\* CommandManager.literal(name)
HLiteral(name) ==
  /\ Len(heap) < MaxHeap
  /\ heap' = Append(heap, literal(name))
  /\ last' = Idle
  /\ UNCHANGED <<roots, detached, removed>>

\* CommandManager.argument(name, decorator)
HArgument(decorator) ==
  /\ Len(heap) < MaxHeap
  /\ heap' = Append(heap, argument(<<"x">>, decorator))
  /\ last' = Idle
  /\ UNCHANGED <<roots, detached, removed>>

\* node.execute(exec) on the node at id
HSetExec(id, exec) ==
  /\ heap' = [heap EXCEPT ![id] = execute(@, exec)]
  /\ last' = Idle
  /\ UNCHANGED <<roots, detached, removed>>

\* parent.then(child) for any two nodes, the same node included
HThen(parent, child) ==
  /\ Refs < MaxRefs
  /\ heap' = [heap EXCEPT ![parent] = then(@, Ref(child))]
  /\ last' = Idle
  /\ UNCHANGED <<roots, detached, removed>>

\* manager.register(namespace, node) for any node, registered before or not
HRegister(namespace, id) ==
  /\ Refs < MaxRefs
  /\ roots' = register(roots, namespace, Ref(id))
  /\ removed' = removed \ {namespace}
  /\ last' = Idle
  /\ UNCHANGED <<detached, heap>>

\* manager.remove(namespace)
HRemove(namespace) ==
  /\ roots' = remove(roots, namespace)
  /\ removed' = IF has(roots, namespace) THEN removed \cup {namespace} ELSE removed
  /\ last' = Idle
  /\ UNCHANGED <<detached, heap>>

\* manager.execute(source, commands)
HExecute(source, commands) ==
  /\ LET r == manager_execute(Registry(roots), source, commands) IN
       last' = [op |-> "execute", commands |-> commands,
                threw |-> r.threw, log |-> r.log]
  /\ UNCHANGED <<roots, detached, removed, heap>>

NextHeap ==
  \/ \E name \in Names : HLiteral(name)
  \/ \E decorator \in HDecorators : HArgument(decorator)
  \/ \E id \in 1..Len(heap), exec \in Handlers : HSetExec(id, exec)
  \/ \E parent \in 1..Len(heap), child \in 1..Len(heap) : HThen(parent, child)
  \/ \E namespace \in Namespaces, id \in 1..Len(heap) : HRegister(namespace, id)
  \/ \E namespace \in Namespaces : HRemove(namespace)
  \/ \E source \in HSources, commands \in CommandLines : HExecute(source, commands)

SpecHeap == Init /\ [][NextHeap]_vars

----------------------------------------------------------------------------
(* Reading the observation of an execute call *)

Executed == last.op = "execute"
Log == last.log
Prefixed == startsWith(last.commands, prefix)

\* the tokens of the command line, left to right
Tokens == split(substring(last.commands, Len(prefix)), " ")

RECURSIVE descend(_, _)
descend(node, path) ==
  IF Len(path) = 0 THEN node ELSE descend(node.children[path[1]], Tail(path))

\* the node a logged call belongs to
NodeAt(ns, path) == descend(get(roots, ns), path)

IsPrefixOf(p, q) == Len(p) <= Len(q) /\ SubSeq(q, 1, Len(p)) = p

At(i, op, ns, path) ==
  Log[i].op = op /\ Log[i].ns = ns /\ Log[i].path = path

Calls(op, ns, path) == { i \in 1..Len(Log) : At(i, op, ns, path) }

FooLine == prefix \o <<"a">>

FooWithHandler(node) ==
  /\ node.kind = "literal"
  /\ node.name = <<"a">>
  /\ node.exec # undefined
  /\ node.permission = undefined

InvokedOnceBare(ns, path) ==
  /\ Cardinality(Calls("exec", ns, path)) = 1
  /\ \A i \in Calls("exec", ns, path) : Log[i].data = <<>>

----------------------------------------------------------------------------
\* C1 (as stated): in every reachable manager state, for every literal foo
\* with a handler and no permission directly under the root of any registered
\* namespace, execute(source, prefix + "foo") invokes that handler exactly
\* once with no further arguments.
C1_AnyNamespace ==
  (Executed /\ last.commands = FooLine) =>
    \A r \in 1..Len(roots) : \A j \in 1..Len(roots[r].node.children) :
      FooWithHandler(roots[r].node.children[j]) =>
        InvokedOnceBare(roots[r].key, <<j>>)

\* the first child of the root that is a literal named foo
FirstFoo(root, j) ==
  /\ root.children[j].kind = "literal"
  /\ root.children[j].name = <<"a">>
  /\ \A k \in 1..(j - 1) :
       ~(root.children[k].kind = "literal" /\ root.children[k].name = <<"a">>)

\* C1 (amended): for the namespace first in dispatch order and the first child
\* of its root named foo, carrying a handler and no permission,
\* execute(source, prefix + "foo") invokes that handler exactly once with no
\* further arguments.
C1_FirstNamespace ==
  (Executed /\ last.commands = FooLine /\ Len(roots) >= 1) =>
    \A j \in 1..Len(roots[1].node.children) :
      (FirstFoo(roots[1].node, j) /\ FooWithHandler(roots[1].node.children[j])) =>
        InvokedOnceBare(roots[1].key, <<j>>)

C1_Witness ==
  /\ Executed
  /\ last.commands = FooLine
  /\ Len(roots) = 2
  /\ \E j \in 1..Len(roots[1].node.children) :
       /\ FirstFoo(roots[1].node, j)
       /\ FooWithHandler(roots[1].node.children[j])
       /\ InvokedOnceBare(roots[1].key, <<j>>)

----------------------------------------------------------------------------
\* the nodes from below the root down to path, one per index of path
Chain(ns, path) == [k \in 1..Len(path) |-> NodeAt(ns, SubSeq(path, 1, k))]

Matches(node, token) ==
  IF node.kind = "literal" THEN node.name = token
  ELSE node.kind = "argument" /\ ~decode(node, token).threw

\* the command line is matched along the chain: one node per token
MatchedAlong(chain) ==
  /\ Len(chain) = Len(Tokens)
  /\ \A k \in 1..Len(chain) : Matches(chain[k], Tokens[k])

RECURSIVE Decoded(_, _)
Decoded(chain, tokens) ==
  IF Len(chain) = 0 THEN <<>>
  ELSE (IF chain[1].kind = "argument"
        THEN <<decode(chain[1], tokens[1]).value>> ELSE <<>>)
       \o Decoded(Tail(chain), Tail(tokens))

\* C2: when the command line is matched along a path, the handler there is
\* invoked with exactly the decoded values of the tokens at the argument
\* nodes of the path, one per argument node, in left-to-right token order,
\* none for a literal node.
C2_DecodedInOrder ==
  Executed =>
    \A i \in 1..Len(Log) :
      (Log[i].op = "exec" /\ MatchedAlong(Chain(Log[i].ns, Log[i].path))) =>
        Log[i].data = Decoded(Chain(Log[i].ns, Log[i].path), Tokens)

C2_Witness ==
  /\ Executed
  /\ \E i \in 1..Len(Log) :
       /\ Log[i].op = "exec"
       /\ MatchedAlong(Chain(Log[i].ns, Log[i].path))
       /\ Len(Log[i].data) = 2
       /\ Log[i].data[1] # Log[i].data[2]
       /\ Log[i].data[1].type = "number"

----------------------------------------------------------------------------
LiteralChildren(node, name) ==
  { j \in 1..Len(node.children) :
      node.children[j].kind = "literal" /\ node.children[j].name = name }

ArgumentChildren(node) ==
  { j \in 1..Len(node.children) : node.children[j].kind = "argument" }

AcceptsAll(node) == node.kind = "argument" /\ node.decorator = "STRING"

\* C3: at a node with a literal child named a and an argument child that
\* accepts every token, the token "a" goes into a literal child and the
\* argument child is neither asked to decode nor entered.
C3_LiteralFirst ==
  Executed =>
    \A i \in 1..Len(Log) :
      LET node == NodeAt(Log[i].ns, Log[i].path) IN
      (/\ Log[i].op = "pop"
       /\ Log[i].data = <<"a">>
       /\ LiteralChildren(node, <<"a">>) # {}
       /\ \E k \in ArgumentChildren(node) : AcceptsAll(node.children[k]))
      =>
       /\ \E j \in LiteralChildren(node, <<"a">>) :
            Calls("parse", Log[i].ns, Append(Log[i].path, j)) # {}
       /\ \A k \in ArgumentChildren(node) :
            /\ Calls("decode", Log[i].ns, Append(Log[i].path, k)) = {}
            /\ Calls("parse", Log[i].ns, Append(Log[i].path, k)) = {}

C3_Witness ==
  /\ Executed
  /\ \E i \in 1..Len(Log) :
       LET node == NodeAt(Log[i].ns, Log[i].path) IN
       /\ Log[i].op = "pop"
       /\ Log[i].data = <<"a">>
       /\ LiteralChildren(node, <<"a">>) # {}
       /\ \E k \in ArgumentChildren(node) : AcceptsAll(node.children[k])
       /\ \E j \in LiteralChildren(node, <<"a">>) :
            Calls("parse", Log[i].ns, Append(Log[i].path, j)) # {}

----------------------------------------------------------------------------
Refused(i) == Log[i].op = "hasPermission" /\ ~Log[i].data.result

\* C4: when the source lacks the permission a node requires, parse reports
\* "Permission denied", returns false, and no handler or decoder of that node
\* or of its subtree runs afterwards in that parse.
C4_PermissionGate ==
  Executed =>
    \A i \in 1..Len(Log) :
      Refused(i) =>
        /\ i + 2 <= Len(Log)
        /\ At(i + 1, "fail", Log[i].ns, Log[i].path)
        /\ Log[i + 1].data = PermissionDenied
        /\ At(i + 2, "return", Log[i].ns, Log[i].path)
        /\ Log[i + 2].data = "false"
        /\ \A j \in (i + 1)..Len(Log) :
             (Log[j].ns = Log[i].ns /\ IsPrefixOf(Log[i].path, Log[j].path)) =>
               Log[j].op \notin {"exec", "decode", "parse", "pop"}

\* the refusal happens where the remaining tokens fully match: none are left
\* and the node has a handler
C4_Witness ==
  /\ Executed
  /\ \E i \in 1..Len(Log) :
       /\ Refused(i)
       /\ NodeAt(Log[i].ns, Log[i].path).exec # undefined
       /\ \E p \in Calls("parse", Log[i].ns, Log[i].path) : Log[p].data = <<>>
       /\ ~ \E j \in 1..Len(Log) : Log[j].op = "exec"

----------------------------------------------------------------------------
\* position of a namespace in the dispatch order
KeyIndex(ns) == CHOOSE r \in 1..Len(roots) : roots[r].key = ns

OfNamespace(i) == Log[i].ns # undefined

\* C5 (as stated): the roots are tried in registration order up to the first
\* whose parse returns true; once a handler has been invoked in a namespace
\* nothing of a later-registered namespace is performed (no parse, decoder,
\* permission check or handler), so at most one handler is invoked per call.
C5_StopsAtFirstHandler ==
  Executed =>
    /\ \A i, j \in 1..Len(Log) :
         (i < j /\ OfNamespace(i) /\ OfNamespace(j)) =>
           KeyIndex(Log[i].ns) <= KeyIndex(Log[j].ns)
    /\ \A i \in 1..Len(Log) :
         (At(i, "return", Log[i].ns, <<>>) /\ Log[i].data = "true") => i = Len(Log)
    /\ \A i, j \in 1..Len(Log) :
         (Log[i].op = "exec" /\ i < j /\ OfNamespace(j)) =>
           KeyIndex(Log[j].ns) <= KeyIndex(Log[i].ns)
    /\ Cardinality({ i \in 1..Len(Log) : Log[i].op = "exec" }) <= 1

----------------------------------------------------------------------------
RootEntries == { i \in 1..Len(Log) : Log[i].op = "parse" /\ Log[i].path = <<>> }

\* the child of root that the token leads to: the first literal of that name,
\* or else the first argument child
Leads(root, token, j) ==
  IF LiteralChildren(root, token) # {}
  THEN j \in LiteralChildren(root, token) /\ \A k \in LiteralChildren(root, token) : j <= k
  ELSE j \in ArgumentChildren(root) /\ \A k \in ArgumentChildren(root) : j <= k

\* C6 (as stated): every namespace root that is attempted receives the whole
\* token sequence of the command line, to be popped in left-to-right order;
\* so a namespace whose tree matches the command line has its handler invoked
\* when the namespaces before it fail.
C6_FreshTokensPerNamespace ==
  (Executed /\ Prefixed) =>
    /\ \A i \in RootEntries : Log[i].data = reverse(Tokens)
    /\ \A i \in RootEntries :
         LET root == NodeAt(Log[i].ns, <<>>) IN
         \A j \in 1..Len(root.children) :
           (/\ Len(Tokens) = 1
            /\ Leads(root, Tokens[1], j)
            /\ Matches(root.children[j], Tokens[1])
            /\ root.children[j].exec # undefined
            /\ root.children[j].permission = undefined)
           => Calls("exec", Log[i].ns, <<j>>) # {}

----------------------------------------------------------------------------
\* C7: after remove(ns) and until ns is registered again, an execute call
\* makes no call on behalf of ns (no parse, permission check, decoder or
\* handler of what was registered under it); with a removed, the namespace
\* now first is the one whose literal ping handles prefix + "ping".
C7_RemovedNamespaceSilent ==
  Executed =>
    /\ \A i \in 1..Len(Log) : Log[i].ns \notin removed
    /\ \A ns \in removed : ~has(roots, ns)
    /\ (/\ removed # {}
        /\ Len(roots) >= 1
        /\ last.commands = FooLine
        /\ ~last.threw)
       => \A j \in 1..Len(roots[1].node.children) :
            (FirstFoo(roots[1].node, j) /\ FooWithHandler(roots[1].node.children[j]))
            => Calls("exec", roots[1].key, <<j>>) # {}

C7_Witness ==
  /\ Executed
  /\ removed = {"a"}
  /\ Len(roots) = 1
  /\ roots[1].key = "b"
  /\ last.commands = FooLine
  /\ \E j \in 1..Len(roots[1].node.children) : Calls("exec", "b", <<j>>) # {}

----------------------------------------------------------------------------
Parent(path) == SubSeq(path, 1, Len(path) - 1)

Rejected(i) ==
  /\ Log[i].op = "decode"
  /\ isNaN(Log[i].data)
  /\ NodeAt(Log[i].ns, Log[i].path).decorator = "NUMBER"

----------------------------------------------------------------------------
FailsInvalid(ns, path) ==
  /\ \E j \in Calls("fail", ns, path) : Log[j].data = InvalidCommand
  /\ \E j \in Calls("return", ns, path) : Log[j].data = "false"

NoChildFor(node, token) ==
  LiteralChildren(node, token) = {} /\ ArgumentChildren(node) = {}

\* C9 (as stated): a dead end is reported as "Invalid command" and invokes no
\* handler: at a node with a token popped and no child matching it, or with
\* no token left and no handler, parse calls source.fail("Invalid command")
\* and returns false.
C9_DeadEndReported ==
  Executed =>
    \A i \in 1..Len(Log) :
      LET node == NodeAt(Log[i].ns, Log[i].path) IN
      /\ (Log[i].op = "pop" /\ NoChildFor(node, Log[i].data)) =>
            /\ FailsInvalid(Log[i].ns, Log[i].path)
            /\ \A j \in 1..Len(Log) : Log[j].ns = Log[i].ns => Log[j].op # "exec"
      /\ (/\ Log[i].op = "parse"
          /\ Log[i].data = <<>>
          /\ node.exec = undefined
          /\ Calls("hasPermission", Log[i].ns, Log[i].path) \subseteq
               { j \in 1..Len(Log) : Log[j].data.result }) =>
            /\ FailsInvalid(Log[i].ns, Log[i].path)
            /\ \A j \in 1..Len(Log) : Log[j].ns = Log[i].ns => Log[j].op # "exec"

----------------------------------------------------------------------------
\* C10 (as stated): every call of parse that returns false has called
\* source.fail at least once between its entry and its return.
C10_FalseMeansFailCalled ==
  Executed =>
    \A i \in 1..Len(Log) :
      (Log[i].op = "return" /\ Log[i].data = "false") =>
        \E p \in Calls("parse", Log[i].ns, Log[i].path) :
          \E j \in (p + 1)..(i - 1) : Log[j].op = "fail"

----------------------------------------------------------------------------
LacksPrefix == Len(last.commands) = 0 \/ last.commands[1] # "/"

----------------------------------------------------------------------------
OfKind(s, kind) == SelectSeq(s, LAMBDA c : c.kind = kind)

\* new is old with child attached: literals first, and within each kind the
\* earlier children in their earlier order followed by the new one
Attached(old, child, new) ==
  /\ new = OfKind(new, "literal") \o OfKind(new, "argument")
  /\ OfKind(new, "literal") =
       OfKind(old, "literal") \o (IF child.kind = "literal" THEN <<child>> ELSE <<>>)
  /\ OfKind(new, "argument") =
       OfKind(old, "argument") \o (IF child.kind = "argument" THEN <<child>> ELSE <<>>)

\* a then() call on the node being built
ThenStep ==
  /\ roots' = roots
  /\ Len(detached) >= 2
  /\ Len(detached') = Len(detached) - 1

\* a register() call into namespace
RegisterStep(namespace) ==
  /\ Len(detached) >= 1
  /\ detached' = Below
  /\ has(roots', namespace)
  /\ ~has(roots, namespace) \/ get(roots', namespace) # get(roots, namespace)

ChildrenBefore(namespace) ==
  IF has(roots, namespace) THEN get(roots, namespace).children ELSE <<>>

\* C13: every then() call, made directly or by register, leaves the node's
\* children with every literal before every argument, and within each kind in
\* the order they were attached: the earlier children keep their order and
\* the new child comes last of its kind.
C13_LiteralsFirstStable ==
  [][/\ ThenStep =>
          Attached(detached[Len(detached) - 1].children, Top,
                   detached'[Len(detached')].children)
     /\ \A namespace \in Namespaces :
          RegisterStep(namespace) =>
            Attached(ChildrenBefore(namespace), Top,
                     get(roots', namespace).children)]_vars

\* a root holds two different children of one kind, the one with a handler
\* attached after the one without
C13_Witness ==
  \E r \in 1..Len(roots) :
    LET c == roots[r].node.children IN
    /\ Len(c) = 2
    /\ c[1].kind = c[2].kind
    /\ c[1].exec = undefined
    /\ c[2].exec # undefined

----------------------------------------------------------------------------
\* C14: a handler is invoked only at a node whose chain from the namespace
\* root matches the complete token sequence of the command line, one node per
\* token, left to right.
C14_WholeLineMatched ==
  Executed =>
    \A i \in 1..Len(Log) :
      Log[i].op = "exec" => MatchedAlong(Chain(Log[i].ns, Log[i].path))

----------------------------------------------------------------------------
----------------------------------------------------------------------------
\* the handler invoked at Log[i] raised an error
Raised(i) ==
  /\ Log[i].op = "exec"
  /\ i < Len(Log)
  /\ At(i + 1, "return", Log[i].ns, Log[i].path)
  /\ Log[i + 1].data = "throw"

ArgumentsOn(ns, path) ==
  { k \in 1..Len(path) : NodeAt(ns, SubSeq(path, 1, k)).kind = "argument" }

\* the node whose try block is the innermost around the handler: the parent
\* of the deepest argument node of the path
Catcher(ns, path) ==
  LET k == CHOOSE m \in ArgumentsOn(ns, path) :
             \A n \in ArgumentsOn(ns, path) : n <= m
  IN SubSeq(path, 1, k - 1)

\* C18: an error raised by a handler below at least one argument node is
\* caught in parse: the node holding the innermost try reports the error's
\* message with fail, the root's parse returns false, every later namespace
\* is tried and execute ends with its own fail("Invalid command") without an
\* error leaving it.  An error raised by a handler on a path of literals only
\* leaves execute, and no fail is called after the handler.
C18_HandlerError ==
  Executed =>
    \A i \in 1..Len(Log) :
      Raised(i) =>
        LET ns == Log[i].ns
            path == Log[i].path
        IN
        IF ArgumentsOn(ns, path) # {}
        THEN
          /\ ~last.threw
          /\ \E j \in (i + 1)..Len(Log) :
               /\ At(j, "fail", ns, Catcher(ns, path))
               /\ Log[j].data = HandlerError
          /\ \E j \in (i + 1)..Len(Log) :
               At(j, "return", ns, <<>>) /\ Log[j].data = "false"
          /\ \A r \in (KeyIndex(ns) + 1)..Len(roots) :
               \E j \in (i + 1)..Len(Log) : At(j, "parse", roots[r].key, <<>>)
          /\ Log[Len(Log)] = Ev("fail", undefined, <<>>, InvalidCommand)
        ELSE
          /\ last.threw
          /\ \A j \in (i + 1)..Len(Log) : Log[j].op \notin {"fail", "parse", "exec"}

\* a handler below an argument node has raised an error in the first of two
\* namespaces
C18_Witness ==
  /\ Executed
  /\ Len(roots) = 2
  /\ \E i \in 1..Len(Log) :
       /\ Raised(i)
       /\ Log[i].ns = roots[1].key
       /\ ArgumentsOn(Log[i].ns, Log[i].path) # {}
       /\ Log[Len(Log)] = Ev("fail", undefined, <<>>, InvalidCommand)

----------------------------------------------------------------------------
\* the namespaces whose roots the call has entered, in the order of entry
RECURSIVE Entered(_)
Entered(log) ==
  IF Len(log) = 0 THEN <<>>
  ELSE (IF log[1].op = "parse" /\ log[1].path = <<>> THEN <<log[1].ns>> ELSE <<>>)
       \o Entered(Tail(log))

\* C19: registering into an existing namespace leaves the order of the
\* namespaces as it is; registering a namespace that does not exist puts it
\* after every existing namespace, also when it existed before and was
\* removed; removing takes the namespace out and keeps the order of the
\* others; and execute enters the roots in that order.
C19_PriorityIsCreationOrder ==
  [][/\ (roots' # roots /\ Len(roots') = Len(roots)) => keys(roots') = keys(roots)
     /\ Len(roots') > Len(roots) =>
          \E namespace \in Namespaces :
            /\ ~has(roots, namespace)
            /\ keys(roots') = Append(keys(roots), namespace)
     /\ \A namespace \in removed :
          has(roots', namespace) => keys(roots') = Append(keys(roots), namespace)
     /\ Len(roots') < Len(roots) =>
          \E namespace \in Namespaces :
            keys(roots') = SelectSeq(keys(roots), LAMBDA k : k # namespace)
     /\ last'.op = "execute" =>
          IsPrefixOf(Entered(last'.log), keys(roots'))]_vars

\* b is before a in the order and has had a second node registered after a
\* was created, and a call has entered b's root and then a's
C19_Witness ==
  /\ Executed
  /\ keys(roots) = <<"b", "a">>
  /\ Len(roots[1].node.children) = 2
  /\ Entered(Log) = <<"b", "a">>

----------------------------------------------------------------------------
\* C15: in every parse call the number of tokens on the stack is the number
\* the root's call was given less the depth of the call: one token is popped
\* per level, so the recursion is no deeper than the tokens at entry, however
\* the nodes refer to each other.
C15_DepthBoundedByTokens ==
  Executed =>
    \A i \in 1..Len(Log) :
      Log[i].op = "parse" =>
        \E e \in 1..i :
          /\ At(e, "parse", Log[i].ns, <<>>)
          /\ Len(Log[i].path) + Len(Log[i].data) = Len(Log[e].data)

\* a node that is its own child has been entered as often as the command
\* line has tokens, and the call ended there
C15_Witness ==
  /\ Executed
  /\ \E id \in 1..Len(heap) : \E j \in 1..Len(heap[id].children) :
       heap[id].children[j].id = id
  /\ \E i \in 1..Len(Log) :
       /\ Log[i].op = "parse"
       /\ Len(Log[i].path) = MaxTokens
       /\ Log[i].data = <<>>
       /\ \E e \in 1..i : At(e, "parse", Log[i].ns, <<>>) /\ Len(Log[e].data) = MaxTokens

----------------------------------------------------------------------------
\* the places in children arrays of nodes, and of roots, that refer to id
NodeHolders(id) ==
  { h \in (1..Len(heap)) \X (1..MaxRefs) :
      /\ h[2] <= Len(heap[h[1]].children)
      /\ heap[h[1]].children[h[2]].id = id }

RootHolders(id) ==
  { h \in (1..Len(roots)) \X (1..MaxRefs) :
      /\ h[2] <= Len(roots[h[1]].node.children)
      /\ roots[h[1]].node.children[h[2]].id = id }

Kids(id) == { heap[id].children[j].id : j \in 1..Len(heap[id].children) }

\* the nodes reached from id in one to n steps
RECURSIVE Under(_, _)
Under(id, n) ==
  IF n = 0 THEN {}
  ELSE Kids(id) \cup UNION { Under(k, n - 1) : k \in Kids(id) }

\* C16: after any sequence of then() and register() calls every node is
\* referred to from at most one place (one parent, or one namespace root,
\* once), and no node is reached from itself.
C16_Forest ==
  \A id \in 1..Len(heap) :
    /\ Cardinality(NodeHolders(id)) + Cardinality(RootHolders(id)) <= 1
    /\ id \notin Under(id, Len(heap))

----------------------------------------------------------------------------
Repeated == Executed /\ Len(last.before) = 1

====
